---- MODULE Spec2Model ----
(***************************************************************************)
(* Verification model of the OAuth2 credential subsystem of salesforce-cli *)
(* (sfdc): the credential store (macOS Keychain with config-file           *)
(* fallback), the persistent token source that re-persists refreshed       *)
(* tokens, and the local callback listener raced against terminal input    *)
(* and a deadline by the init command.                                     *)
(***************************************************************************)
EXTENDS Naturals, Sequences, FiniteSets, TLC

VARIABLES
    kc,          \* the generic-password item of the macOS Keychain
    file,        \* the token file token.json of the config directory
    legacy,      \* a plaintext token file at another path, given to MigrateFromFile
    op           \* the store operation performed by the last step, with its results

storeVars == <<kc, file, legacy, op>>

----------------------------------------------------------------------------
(* Tokens (oauth2.Token) and their JSON form                               *)

ZeroTime == "0001-01-01T00:00:00Z"

AccessTokens  == {"A", "B"}
RefreshTokens == {"", "R"}
TokenTypes    == {"", "Bearer"}
Expiries      == {ZeroTime, "2026-01-01T00:00:00Z"}

\* the tokens handed to the store: every combination of empty and non-empty
\* optional fields under access token "A", and one token that differs from
\* them in the access token
Tokens ==
    {t \in [AccessToken : AccessTokens, RefreshToken : RefreshTokens,
            TokenType : TokenTypes, Expiry : Expiries] :
        t.AccessToken = "A"
        \/ (t.RefreshToken # "" /\ t.TokenType # "" /\ t.Expiry # ZeroTime)}

\* a nil *oauth2.Token
NilToken == [nil |-> TRUE]

\* a marshaller that leaves the expiry out
MarshalTokenNoExpiry(t) ==
    [k \in {"access_token"}
           \cup (IF t.TokenType # "" THEN {"token_type"} ELSE {})
           \cup (IF t.RefreshToken # "" THEN {"refresh_token"} ELSE {})
       |-> CASE k = "access_token"  -> t.AccessToken
             [] k = "token_type"    -> t.TokenType
             [] k = "refresh_token" -> t.RefreshToken]

\* json.Marshal / json.NewEncoder(f).Encode of an oauth2.Token: token_type and
\* refresh_token are omitted when empty, access_token and expiry are always
\* written (a zero time.Time is written as ZeroTime).
MarshalToken(t) ==
    [k \in {"access_token", "expiry"}
           \cup (IF t.TokenType # "" THEN {"token_type"} ELSE {})
           \cup (IF t.RefreshToken # "" THEN {"refresh_token"} ELSE {})
       |-> CASE k = "access_token"  -> t.AccessToken
             [] k = "expiry"        -> t.Expiry
             [] k = "token_type"    -> t.TokenType
             [] k = "refresh_token" -> t.RefreshToken]

\* the value of key k in the JSON object j, or the zero value z when absent
Field(j, k, z) == IF k \in DOMAIN j THEN j[k] ELSE z

\* json.Unmarshal / Decode into a fresh oauth2.Token: absent keys leave the
\* zero value of the field.
UnmarshalToken(j) ==
    [AccessToken  |-> Field(j, "access_token", ""),
     RefreshToken |-> Field(j, "refresh_token", ""),
     TokenType    |-> Field(j, "token_type", ""),
     Expiry       |-> Field(j, "expiry", ZeroTime)]

----------------------------------------------------------------------------
(* Backend states                                                          *)

NoItem        == [kind |-> "none"]
Item(j)       == [kind |-> "item", data |-> j]

Absent        == [kind |-> "absent"]
\* the file exists but holds no complete JSON value (cut by O_TRUNC, then the
\* write failed)
Truncated     == [kind |-> "truncated"]
Content(j)    == [kind |-> "json", data |-> j]

ErrTokenNotFound == "no token found in secure storage"

\* faults the environment can inject into one file operation
FileReadFaults   == {"none", "path", "open"}
FileWriteFaults  == {"none", "path", "mkdir", "open", "encode"}
FileRemoveFaults == {"none", "path", "remove"}

----------------------------------------------------------------------------
(* File-based storage (fallback)                                           *)

getFromConfigFile(f, fault) ==
    IF fault = "path" THEN [err |-> "config dir", tok |-> NilToken]
    ELSE IF f.kind = "absent" THEN [err |-> ErrTokenNotFound, tok |-> NilToken]
    ELSE IF fault = "open" THEN [err |-> "failed to open token file", tok |-> NilToken]
    ELSE IF f.kind # "json" THEN [err |-> "failed to parse token file", tok |-> NilToken]
    ELSE [err |-> "", tok |-> UnmarshalToken(f.data)]

setInConfigFile(f, t, fault) ==
    IF fault = "path" THEN [file |-> f, err |-> "config dir"]
    ELSE IF fault = "mkdir" THEN [file |-> f, err |-> "failed to create config directory"]
    ELSE IF fault = "open" THEN [file |-> f, err |-> "failed to create token file"]
    ELSE IF fault = "encode" THEN [file |-> Truncated, err |-> "failed to write token"]
    ELSE [file |-> Content(MarshalToken(t)), err |-> ""]

deleteFromConfigFile(f, fault) ==
    IF fault = "path" THEN [file |-> f, err |-> "config dir"]
    ELSE IF f.kind = "absent" THEN [file |-> f, err |-> ""]
    ELSE IF fault = "remove" THEN [file |-> f, err |-> "failed to delete token file"]
    ELSE [file |-> Absent, err |-> ""]

----------------------------------------------------------------------------
(* macOS Keychain through the security CLI; each invocation either works   *)
(* (ok) or fails as a whole                                                *)

getFromKeychain(k, ok) ==
    IF ~ok \/ k.kind = "none"
    THEN [err |-> "failed to read from keychain", tok |-> NilToken]
    ELSE [err |-> "", tok |-> UnmarshalToken(k.data)]

deleteFromKeychain(k, ok) ==
    IF ~ok \/ k.kind = "none"
    THEN [kc |-> k, err |-> "failed to delete from keychain"]
    ELSE [kc |-> NoItem, err |-> ""]

setInKeychain(k, t, delOk, addOk) ==
    LET afterDelete == deleteFromKeychain(k, delOk).kc
    IN  IF addOk THEN [kc |-> Item(MarshalToken(t)), err |-> ""]
        ELSE [kc |-> afterDelete, err |-> "failed to store in keychain"]

----------------------------------------------------------------------------
(* The composite store of the darwin build                                 *)

\* a read that prefers the file to the keychain
getTokenFileFirst(k, f, readOk, fault) ==
    LET r == getFromConfigFile(f, fault)
    IN  IF r.err = "" THEN r ELSE getFromKeychain(k, readOk)

getToken(k, f, readOk, fault) ==
    LET r == getFromKeychain(k, readOk)
    IN  IF r.err = "" THEN r ELSE getFromConfigFile(f, fault)

\* a write that stores the token in the file as well as in the keychain
setTokenBoth(k, f, t, delOk, addOk, fault) ==
    LET r == setInKeychain(k, t, delOk, addOk)
        w == setInConfigFile(f, t, fault)
    IN  [kc |-> r.kc, file |-> w.file,
         err |-> IF r.err = "" THEN "" ELSE w.err, kcErr |-> r.err,
         fileErr |-> w.err, warned |-> r.err # ""]

setToken(k, f, t, delOk, addOk, fault) ==
    LET r == setInKeychain(k, t, delOk, addOk)
        w == setInConfigFile(f, t, fault)
    IN  IF r.err = ""
        THEN [kc |-> r.kc, file |-> f, err |-> "", kcErr |-> "",
              fileErr |-> "skipped", warned |-> FALSE]
        ELSE [kc |-> r.kc, file |-> w.file, err |-> w.err, kcErr |-> r.err,
              fileErr |-> w.err, warned |-> TRUE]

deleteToken(k, f, delOk, fault) ==
    LET r == deleteFromKeychain(k, delOk)
        d == deleteFromConfigFile(f, fault)
    IN  [kc |-> r.kc, file |-> d.file,
         err |-> IF r.err # "" /\ d.err # "" THEN r.err ELSE "",
         kcErr |-> r.err, fileErr |-> d.err]

----------------------------------------------------------------------------
(* Operations of the store                                                 *)

NoOp == [name |-> "none"]

\* the record of a call: its name, argument, returned error and token, the
\* errors of the backend calls it made ("skipped" when a backend was not
\* called), whether it printed a warning, and whether the environment
\* injected a fault into it
Call(name, arg, err, tok, kcErr, fileErr, warned, fault) ==
    [name |-> name, arg |-> arg, err |-> err, tok |-> tok, kcErr |-> kcErr,
     fileErr |-> fileErr, warned |-> warned, fault |-> fault]

SetToken(t) ==
    \E delOk \in BOOLEAN, addOk \in BOOLEAN, fault \in FileWriteFaults :
        LET r == setToken(kc, file, t, delOk, addOk, fault)
        IN  /\ kc' = r.kc
            /\ file' = r.file
            /\ op' = Call("SetToken", t, r.err, NilToken, r.kcErr, r.fileErr,
                          r.warned, ~addOk \/ fault # "none")
            /\ UNCHANGED legacy

GetToken ==
    \E readOk \in BOOLEAN, fault \in FileReadFaults :
        LET r == getToken(kc, file, readOk, fault)
            viaKc == getFromKeychain(kc, readOk).err = ""
        IN  /\ op' = Call("GetToken", NilToken, r.err, r.tok,
                          getFromKeychain(kc, readOk).err,
                          IF viaKc THEN "skipped" ELSE r.err,
                          FALSE, ~readOk \/ fault # "none")
            /\ UNCHANGED <<kc, file, legacy>>

DeleteToken ==
    \E delOk \in BOOLEAN, fault \in FileRemoveFaults :
        LET r == deleteToken(kc, file, delOk, fault)
        IN  /\ kc' = r.kc
            /\ file' = r.file
            /\ op' = Call("DeleteToken", NilToken, r.err, NilToken, r.kcErr,
                          r.fileErr, FALSE, ~delOk \/ fault # "none")
            /\ UNCHANGED legacy

\* the backends called directly, as the package's own tests do
SetInConfigFile(t) ==
    \E fault \in FileWriteFaults :
        LET w == setInConfigFile(file, t, fault)
        IN  /\ file' = w.file
            /\ op' = Call("setInConfigFile", t, w.err, NilToken, "skipped", w.err,
                          FALSE, fault # "none")
            /\ UNCHANGED <<kc, legacy>>

GetFromConfigFile ==
    \E fault \in FileReadFaults :
        LET r == getFromConfigFile(file, fault)
        IN  /\ op' = Call("getFromConfigFile", NilToken, r.err, r.tok, "skipped",
                          r.err, FALSE, fault # "none")
            /\ UNCHANGED <<kc, file, legacy>>

SetInKeychain(t) ==
    \E delOk \in BOOLEAN, addOk \in BOOLEAN :
        LET r == setInKeychain(kc, t, delOk, addOk)
        IN  /\ kc' = r.kc
            /\ op' = Call("setInKeychain", t, r.err, NilToken, r.err, "skipped",
                          FALSE, ~addOk)
            /\ UNCHANGED <<file, legacy>>

GetFromKeychain ==
    \E readOk \in BOOLEAN :
        LET r == getFromKeychain(kc, readOk)
        IN  /\ op' = Call("getFromKeychain", NilToken, r.err, r.tok, r.err,
                          "skipped", FALSE, ~readOk)
            /\ UNCHANGED <<kc, file, legacy>>

BackendKeychain   == "Keychain"
BackendSecretTool == "secret-tool"
BackendFile       == "config file"

getStorageBackend(k, f, readOk, fault) ==
    IF getFromKeychain(k, readOk).err = "" THEN BackendKeychain
    ELSE IF getFromConfigFile(f, fault).err = "" THEN BackendFile
    ELSE BackendKeychain

\* GetStorageBackend(): the identifier it returns, and whether the
\* environment injected a fault into its reads
GetStorageBackend ==
    \E readOk \in BOOLEAN :
    \E fault \in IF getFromKeychain(kc, readOk).err = "" THEN {"none"}
                 ELSE FileReadFaults :
        /\ op' = [name |-> "GetStorageBackend",
                  backend |-> getStorageBackend(kc, file, readOk, fault),
                  fault |-> ~readOk \/ fault # "none"]
        /\ UNCHANGED <<kc, file, legacy>>

----------------------------------------------------------------------------
(* Secure erasure and the migration of a plaintext token file              *)

\* the size of a file in bytes; the JSON text of a token is counted as one
\* unit per key written
Size(f) ==
    IF f.kind = "json" THEN Cardinality(DOMAIN f.data)
    ELSE IF f.kind = "zeroed" THEN f.size
    ELSE 0

\* a file of n bytes of which the first k have been overwritten with zeros
Zeroed(n, k) == [kind |-> "zeroed", size |-> n, zeros |-> k]

\* one system call made on the file: its name, the number of bytes it was
\* asked to write, and whether it succeeded
Sys(call, n, ok) == [call |-> call, n |-> n, ok |-> ok]

\* the calls of secureDelete that the environment can make fail ("short" is
\* a write that stops one byte early)
SecureDeleteCalls == {"stat", "open", "write", "short", "sync", "remove"}

SecureDeleteFaults == {F \in SUBSET SecureDeleteCalls : Cardinality(F) <= 2}

\* the number of bytes a write of n bytes puts in the file
Written(n, F) ==
    IF "write" \in F THEN 0
    ELSE IF "short" \in F /\ n > 0 THEN n - 1
    ELSE n

\* os.Remove at the end of secureDelete
Remove(f, F) ==
    IF "remove" \in F THEN [file |-> f, err |-> "remove failed"]
    ELSE [file |-> Absent, err |-> ""]

\* an eraser that gives up when the file cannot be opened for writing
secureDeleteNoRemoveOnOpenFailure(f, F) ==
    IF f.kind = "absent"
    THEN [file |-> f, err |-> "", calls |-> <<Sys("stat", 0, FALSE)>>]
    ELSE IF "stat" \in F
    THEN [file |-> f, err |-> "stat failed", calls |-> <<Sys("stat", 0, FALSE)>>]
    ELSE IF "open" \in F
    THEN [file |-> f, err |-> "open failed",
          calls |-> <<Sys("stat", 0, TRUE), Sys("open", 0, FALSE)>>]
    ELSE LET n == Size(f)
             w == Written(n, F)
             g == IF w = 0 THEN f ELSE Zeroed(n, w)
             r == Remove(g, F)
         IN  [file |-> r.file, err |-> r.err,
              calls |-> <<Sys("stat", 0, TRUE), Sys("open", 0, TRUE),
                          Sys("write", n, w = n), Sys("sync", 0, "sync" \notin F),
                          Sys("close", 0, TRUE), Sys("remove", 0, r.err = "")>>]

\* an eraser that unlinks without overwriting
secureDeleteNoOverwrite(f, F) ==
    IF f.kind = "absent"
    THEN [file |-> f, err |-> "", calls |-> <<Sys("stat", 0, FALSE)>>]
    ELSE IF "stat" \in F
    THEN [file |-> f, err |-> "stat failed", calls |-> <<Sys("stat", 0, FALSE)>>]
    ELSE LET r == Remove(f, F)
         IN  [file |-> r.file, err |-> r.err,
              calls |-> <<Sys("stat", 0, TRUE), Sys("remove", 0, r.err = "")>>]

secureDelete(f, F) ==
    IF f.kind = "absent"
    THEN [file |-> f, err |-> "", calls |-> <<Sys("stat", 0, FALSE)>>]
    ELSE IF "stat" \in F
    THEN [file |-> f, err |-> "stat failed", calls |-> <<Sys("stat", 0, FALSE)>>]
    ELSE IF "open" \in F
    THEN LET r == Remove(f, F)
         IN  [file |-> r.file, err |-> r.err,
              calls |-> <<Sys("stat", 0, TRUE), Sys("open", 0, FALSE),
                          Sys("remove", 0, r.err = "")>>]
    ELSE LET n == Size(f)
             w == Written(n, F)
             g == IF w = 0 THEN f ELSE Zeroed(n, w)
             r == Remove(g, F)
         IN  [file |-> r.file, err |-> r.err,
              calls |-> <<Sys("stat", 0, TRUE), Sys("open", 0, TRUE),
                          Sys("write", n, w = n), Sys("sync", 0, "sync" \notin F),
                          Sys("close", 0, TRUE), Sys("remove", 0, r.err = "")>>]

\* a check that never finds the storage secure
IsSecureStorageNever(k, f, readOk, fault) == FALSE

IsSecureStorage(k, f, readOk, fault) ==
    getStorageBackend(k, f, readOk, fault) \in {BackendKeychain, BackendSecretTool}

HasStoredToken(k, f, readOk, fault) == getToken(k, f, readOk, fault).err = ""

\* the paths MigrateFromFile and secureDelete are given: the token file of
\* the config directory itself, or a file elsewhere
TokenPath  == "token.json"
LegacyPath == "legacy.json"
Paths      == {TokenPath, LegacyPath}

\* the environment of one MigrateFromFile call: whether the keychain can be
\* read, deleted from and added to, the faults of the file reads and of the
\* fallback write, whether the file at the path can be opened, and the calls
\* of secureDelete that fail
NoFaults ==
    [readOk |-> TRUE, rfault |-> "none", openOk |-> TRUE, delOk |-> TRUE,
     addOk |-> TRUE, wfault |-> "none", sd |-> {}]

\* the outcome of a run that stops before SetToken
Stopped(k, f, l, err, phase) ==
    [kc |-> k, file |-> f, legacy |-> l, err |-> err, phase |-> phase,
     set |-> FALSE, setErr |-> "skipped", erase |-> <<>>, eraseErr |-> "skipped"]

\* a migration that does not look whether the token was migrated already
MigrateFromFileNoSkip(k, f, l, p, e) ==
    LET src == IF p = TokenPath THEN f ELSE l
    IN  IF src.kind = "absent" THEN Stopped(k, f, l, "", "nothing to migrate")
        ELSE IF ~e.openOk \/ src.kind # "json"
        THEN Stopped(k, f, l, "failed to read token file", "read")
        ELSE LET r == setToken(k, f, UnmarshalToken(src.data), e.delOk, e.addOk,
                               e.wfault)
                 d == secureDelete(IF p = TokenPath THEN r.file ELSE l, e.sd)
             IN  [kc |-> r.kc,
                  file |-> IF p = TokenPath THEN d.file ELSE r.file,
                  legacy |-> IF p = TokenPath THEN l ELSE d.file,
                  err |-> "", phase |-> "migrated", set |-> TRUE,
                  setErr |-> r.err, erase |-> d.calls, eraseErr |-> d.err]

\* MigrateFromFile(p) in keychain k, token file f and other file l
MigrateFromFile(k, f, l, p, e) ==
    LET src == IF p = TokenPath THEN f ELSE l
    IN  IF src.kind = "absent" THEN Stopped(k, f, l, "", "nothing to migrate")
        ELSE IF /\ IsSecureStorage(k, f, e.readOk, e.rfault)
                /\ HasStoredToken(k, f, e.readOk, e.rfault)
        THEN Stopped(k, f, l, "", "already migrated")
        ELSE IF ~e.openOk
        THEN Stopped(k, f, l, "failed to open token file", "open")
        ELSE IF src.kind # "json"
        THEN Stopped(k, f, l, "failed to parse token file", "parse")
        ELSE LET r == setToken(k, f, UnmarshalToken(src.data), e.delOk, e.addOk,
                               e.wfault)
                 d == secureDelete(IF p = TokenPath THEN r.file ELSE l, e.sd)
             IN  IF r.err # ""
                 THEN [kc |-> r.kc, file |-> r.file, legacy |-> l,
                       err |-> "failed to store token in secure storage",
                       phase |-> "set", set |-> TRUE, setErr |-> r.err,
                       erase |-> <<>>, eraseErr |-> "skipped"]
                 ELSE [kc |-> r.kc,
                       file |-> IF p = TokenPath THEN d.file ELSE r.file,
                       legacy |-> IF p = TokenPath THEN l ELSE d.file,
                       err |-> "", phase |-> "migrated", set |-> TRUE,
                       setErr |-> "", erase |-> d.calls, eraseErr |-> d.err]

\* the state and the record of a MigrateFromFile(p) call in environment e
\* (again: the call directly follows a successful call for the same path)
Migrated(p, e) ==
    LET m == MigrateFromFile(kc, file, legacy, p, e)
    IN  /\ kc' = m.kc
        /\ file' = m.file
        /\ legacy' = m.legacy
        /\ op' = [name |-> "MigrateFromFile", path |-> p, err |-> m.err,
                  phase |-> m.phase, set |-> m.set, setErr |-> m.setErr,
                  erase |-> m.erase, eraseErr |-> m.eraseErr,
                  readOk |-> e.readOk, fault |-> e # NoFaults,
                  again |-> /\ op.name = "MigrateFromFile"
                            /\ op.path = p
                            /\ op.err = ""]

\* a call of MigrateFromFile(p); the environment is drawn as far as the run
\* gets to consult it
Migrate(p) ==
    \E readOk \in BOOLEAN :
    \E rfault \in IF getFromKeychain(kc, readOk).err = "" THEN {"none"}
                  ELSE FileReadFaults :
        LET e0 == [NoFaults EXCEPT !.readOk = readOk, !.rfault = rfault]
        IN  IF MigrateFromFile(kc, file, legacy, p, e0).phase
                   \in {"nothing to migrate", "already migrated", "parse"}
            THEN Migrated(p, e0)
            ELSE \E openOk \in BOOLEAN :
                    IF ~openOk
                    THEN Migrated(p, [e0 EXCEPT !.openOk = FALSE])
                    ELSE \E addOk \in BOOLEAN :
                         \E wfault \in IF addOk THEN {"none"} ELSE FileWriteFaults,
                            delOk \in IF addOk THEN {TRUE} ELSE BOOLEAN :
                            LET e1 == [e0 EXCEPT !.delOk = delOk, !.addOk = addOk,
                                                 !.wfault = wfault]
                            IN  IF MigrateFromFile(kc, file, legacy, p, e1).phase
                                       = "set"
                                THEN Migrated(p, e1)
                                ELSE \E c \in SecureDeleteCalls \cup {"none"} :
                                        Migrated(p, [e1 EXCEPT !.sd =
                                                        {c} \cap SecureDeleteCalls])

\* a call of secureDelete(p), as the package's own tests make
SecureDelete(p) ==
    \E F \in SecureDeleteFaults :
        LET d == secureDelete(IF p = TokenPath THEN file ELSE legacy, F)
        IN  /\ file' = IF p = TokenPath THEN d.file ELSE file
            /\ legacy' = IF p = TokenPath THEN legacy ELSE d.file
            /\ op' = [name |-> "secureDelete", path |-> p, err |-> d.err,
                      calls |-> d.calls, faults |-> F]
            /\ UNCHANGED kc

----------------------------------------------------------------------------
(* PersistentTokenSource: Token() delegates to the inner refreshing source, *)
(* then, under the decorator's mutex, compares the returned token with the  *)
(* last one observed and persists it when it differs.                       *)

NumThreads == 2
MaxCalls   == 3
MaxRefresh == 2

Threads == 1..NumThreads

VARIABLES
    pc,          \* where each caller of Token() stands
    tok,         \* the token the inner source returned to each caller
    mu,          \* the holder of the decorator's mutex, 0 when free
    current,     \* the last token the decorator observed
    innerTok,    \* the number of the token the inner source holds
    obs,         \* the tokens compared under the mutex, in order
    setLog,      \* the calls of CredentialStore.Set made by the decorator
    seenCached,  \* per caller: the value of current it compared against
    didSet,      \* per caller: whether this call invoked Set
    calls,       \* the number of Token() calls begun
    overlap      \* whether a call began while another was in progress

ptsVars == <<pc, tok, mu, current, innerTok, obs, setLog, seenCached, didSet,
             calls, overlap>>

\* the n-th token handed out by the provider; number 0 is the token loaded
\* from the store when the client was built
TokenNo(n) ==
    [AccessToken |-> ToString(n), RefreshToken |-> "R", TokenType |-> "Bearer",
     Expiry |-> "2026-01-01T00:00:00Z"]

\* a comparison that takes every returned token for a new one
DiffersAlways(t, last) == TRUE

\* a comparison of the refresh tokens alone
DiffersRefreshToken(t, last) ==
    last = NilToken \/ t.RefreshToken # last.RefreshToken

\* (b) compare the returned token to the last token observed
Differs(t, last) == t # last

\* (a) delegate to the inner source, which returns the token it holds or, when
\* that has expired, a refreshed one; inner calls are not serialised by the
\* decorator
Delegate(i) ==
    /\ pc[i] = "idle"
    /\ calls < MaxCalls
    /\ \E refresh \in BOOLEAN :
          /\ refresh => innerTok < MaxRefresh
          /\ innerTok' = IF refresh THEN innerTok + 1 ELSE innerTok
          /\ tok' = [tok EXCEPT ![i] = TokenNo(innerTok')]
    /\ pc' = [pc EXCEPT ![i] = "got"]
    /\ calls' = calls + 1
    /\ overlap' = (overlap \/ \E j \in Threads \ {i} : pc[j] # "idle")
    /\ didSet' = [didSet EXCEPT ![i] = FALSE]
    /\ seenCached' = [seenCached EXCEPT ![i] = NilToken]
    /\ UNCHANGED <<mu, current, obs, setLog, storeVars>>

LockFree(i) ==
    /\ pc[i] = "got"
    /\ mu' = i
    /\ pc' = [pc EXCEPT ![i] = "compare"]
    /\ UNCHANGED <<tok, current, innerTok, obs, setLog, seenCached, didSet,
                   calls, overlap, storeVars>>

\* an acquisition that does not wait for the mutex
LockUnguarded(i) == LockFree(i)

\* the mutex scoped to the decorator serialises compare-and-persist
Lock(i) ==
    /\ mu = 0
    /\ LockFree(i)

Compare(i) ==
    /\ pc[i] = "compare"
    /\ obs' = Append(obs, tok[i])
    /\ seenCached' = [seenCached EXCEPT ![i] = current]
    /\ pc' = [pc EXCEPT ![i] = IF Differs(tok[i], current) THEN "persist" ELSE "unlock"]
    /\ UNCHANGED <<tok, mu, current, innerTok, setLog, didSet, calls, overlap,
                   storeVars>>

\* (c) persist the new token via CredentialStore.Set before returning it
Persist(i) ==
    /\ pc[i] = "persist"
    /\ \E delOk \in BOOLEAN, addOk \in BOOLEAN, fault \in FileWriteFaults :
          LET r == setToken(kc, file, tok[i], delOk, addOk, fault)
          IN  /\ kc' = r.kc
              /\ file' = r.file
              /\ op' = Call("SetToken", tok[i], r.err, NilToken, r.kcErr,
                            r.fileErr, r.warned, ~addOk \/ fault # "none")
              /\ setLog' = Append(setLog, [tok |-> tok[i], seen |-> Len(obs),
                                           fault |-> ~addOk \/ fault # "none"])
    /\ current' = tok[i]
    /\ didSet' = [didSet EXCEPT ![i] = TRUE]
    /\ pc' = [pc EXCEPT ![i] = "unlock"]
    /\ UNCHANGED <<tok, mu, innerTok, obs, seenCached, calls, overlap, legacy>>

\* release the mutex and return the token to the caller
Unlock(i) ==
    /\ pc[i] = "unlock"
    /\ mu' = 0
    /\ pc' = [pc EXCEPT ![i] = "idle"]
    /\ UNCHANGED <<tok, current, innerTok, obs, setLog, seenCached, didSet,
                   calls, overlap, storeVars>>

PTSIdle ==
    /\ pc = [i \in Threads |-> "idle"]
    /\ tok = [i \in Threads |-> NilToken]
    /\ mu = 0
    /\ current = NilToken
    /\ innerTok = 0
    /\ obs = <<>>
    /\ setLog = <<>>
    /\ seenCached = [i \in Threads |-> NilToken]
    /\ didSet = [i \in Threads |-> FALSE]
    /\ calls = 0
    /\ overlap = FALSE

\* GetHTTPClient builds the source from the token GetToken returned, held by
\* the keychain or by the fallback file
PTSInit ==
    /\ \E inKeychain \in BOOLEAN :
          /\ kc = IF inKeychain THEN Item(MarshalToken(TokenNo(0))) ELSE NoItem
          /\ file = IF inKeychain THEN Absent ELSE Content(MarshalToken(TokenNo(0)))
    /\ legacy = Absent
    /\ op = NoOp
    /\ PTSIdle

----------------------------------------------------------------------------
(* The callback listener (StartCallbackServer) and the authorization step  *)
(* of the init command (runInit) that races it against terminal input and  *)
(* the deadline.  A goroutine whose select finds no case ready blocks; the  *)
(* event that makes a case ready then resolves that select at once: a send  *)
(* is handed to the receiver that has waited longest on the channel.       *)

MaxReq == 2

Reqs == 1..MaxReq

VARIABLES
    mpc,         \* where runInit stands
    ctx,         \* the context of the attempt: "none", "live" or "done"
    deadline,    \* whether the 5 minute deadline has fired
    srv,         \* the HTTP server: "off", "listening" or "closed"
    resultChan,  \* the buffer of the result channel
    recvq,       \* the goroutines blocked receiving, longest waiting first
    arrived,     \* the number of /callback requests accepted
    hpc,         \* where the handler of each request stands
    hres,        \* the result each handler sends
    spc,         \* where the goroutine running server.Serve stands
    wpc,         \* where the shutdown watcher goroutine stands
    wGot,        \* the results the watcher received, and whether runInit
                 \* was still unresolved when it took them
    ipc,         \* where the goroutine reading standard input stands
    inputChan,   \* the buffer of the input channel
    mGot,        \* the result runInit received from the result channel
    mIn,         \* the input runInit received, until its case has run
    code,        \* runInit's variable code
    ret,         \* what runInit returned: "pending", "" for nil, or the error
    via,         \* the select case that resolved the race
    firstDone,   \* which of callback, input and deadline completed first
    late         \* the results placed on the channel after the race resolved

cbVars == <<mpc, ctx, deadline, srv, resultChan, recvq, arrived, hpc, hres, spc,
            wpc, wGot, ipc, inputChan, mGot, mIn, code, ret, via, firstDone,
            late>>

\* resultChan := make(chan CallbackResult, 1)
ResultChanCap == 1

NoResult == [none |-> TRUE]

NoLine == [none |-> TRUE]

CallbackResult(c, e) == [Code |-> c, Error |-> e]

Queries ==
    [code : {"", "X"}, error : {"", "access_denied"},
     error_description : {"", "user denied"}]

\* a handler that sends an empty result for a request without code and error
handlerEmptyResult(q) ==
    IF q.error # ""
    THEN CallbackResult("", IF q.error_description # ""
                            THEN q.error \o ": " \o q.error_description
                            ELSE q.error)
    ELSE CallbackResult(q.code, "")

\* the result the /callback handler sends for a request with query q
handler(q) ==
    IF q.error # ""
    THEN CallbackResult("", IF q.error_description # ""
                            THEN q.error \o ": " \o q.error_description
                            ELSE q.error)
    ELSE IF q.code = ""
    THEN CallbackResult("", "no authorization code received")
    ELSE CallbackResult(q.code, "")

\* A Go string of the terminal input is the sequence of its characters.
WhiteSpace == {" ", "\t", "\n", "\r"}

HexDigits ==
    {"0", "1", "2", "3", "4", "5", "6", "7", "8", "9",
     "A", "B", "C", "D", "E", "F", "a", "b", "c", "d", "e", "f"}

\* the byte a percent escape stands for, for the escapes the inputs contain
Unhex == (<<"2", "F">> :> "/") @@ (<<"2", "f">> :> "/") @@ (<<"2", "0">> :> " ")

Least(S) == CHOOSE i \in S : \A j \in S : i <= j

Greatest(S) == CHOOSE i \in S : \A j \in S : j <= i

\* the Go string as one value
RECURSIVE Str(_)
Str(s) == IF s = <<>> THEN "" ELSE Head(s) \o Str(Tail(s))

\* strings.TrimSpace
TrimSpace(s) ==
    LET keep == {i \in 1..Len(s) : s[i] \notin WhiteSpace}
    IN  IF keep = {} THEN <<>> ELSE SubSeq(s, Least(keep), Greatest(keep))

\* strings.HasPrefix
HasPrefix(s, p) == Len(s) >= Len(p) /\ SubSeq(s, 1, Len(p)) = p

\* strings.Index of one character, 0 when it is absent
Index(s, c) ==
    LET at == {i \in 1..Len(s) : s[i] = c}
    IN  IF at = {} THEN 0 ELSE Least(at)

\* strings.Cut: the text before the first c, and the text after it
Before(s, c) == IF Index(s, c) = 0 THEN s ELSE SubSeq(s, 1, Index(s, c) - 1)

After(s, c) == IF Index(s, c) = 0 THEN <<>> ELSE SubSeq(s, Index(s, c) + 1, Len(s))

\* net/url unescape, first pass: every % is followed by two hex digits
ValidEscapes(s) ==
    \A i \in 1..Len(s) :
        s[i] = "%" => /\ i + 2 <= Len(s)
                      /\ s[i + 1] \in HexDigits
                      /\ s[i + 2] \in HexDigits

\* url.QueryUnescape that leaves the percent escapes as they are
QueryUnescapeNoDecode(s) ==
    [ok |-> ValidEscapes(s),
     value |-> [i \in 1..Len(s) |-> IF s[i] = "+" THEN " " ELSE s[i]]]

\* url.QueryUnescape: %XX becomes the byte, + becomes a space
QueryUnescape(s) ==
    LET escaped(i) == (i > 1 /\ s[i - 1] = "%") \/ (i > 2 /\ s[i - 2] = "%")
        at == SelectSeq([i \in 1..Len(s) |-> i], LAMBDA i : ~escaped(i))
    IN  IF ~ValidEscapes(s)
        THEN [ok |-> FALSE, value |-> <<>>]
        ELSE [ok |-> TRUE,
              value |-> [n \in 1..Len(at) |->
                            IF s[at[n]] = "%" THEN Unhex[<<s[at[n] + 1], s[at[n] + 2]>>]
                            ELSE IF s[at[n]] = "+" THEN " "
                            ELSE s[at[n]]]]

\* net/url parseHost: no character of the host is one that would need
\* escaping, and the port after the last colon is digits only
ValidHost(h) ==
    LET colons == {i \in 1..Len(h) : h[i] = ":"}
    IN  /\ \A i \in 1..Len(h) : h[i] # " "
        /\ ValidEscapes(h)
        /\ colons # {} =>
              \A i \in (Greatest(colons) + 1)..Len(h) :
                  h[i] \in {"0", "1", "2", "3", "4", "5", "6", "7", "8", "9"}

\* url.Parse of an absolute URL with an authority: whether parsing fails (a
\* control character, a bad host, a bad escape in the path), and the RawQuery
Parse(rawURL) ==
    LET u == Before(rawURL, "#")
        rest == After(u, ":")
        hier == Before(rest, "?")
        authority == SubSeq(hier, 3, Len(hier))
        host == Before(authority, "/")
        path == SubSeq(authority, Len(host) + 1, Len(authority))
    IN  [err |-> \/ \E i \in 1..Len(rawURL) : rawURL[i] \in {"\t", "\n", "\r"}
                 \/ ~ValidHost(host)
                 \/ ~ValidEscapes(path),
         RawQuery |-> After(rest, "?")]

\* strings.Cut at every c
RECURSIVE Split(_, _)
Split(s, c) ==
    IF Index(s, c) = 0 THEN <<s>> ELSE <<Before(s, c)>> \o Split(After(s, c), c)

\* url.ParseQuery as URL.Query uses it: the pairs in order, a pair that is
\* empty or cannot be unescaped being dropped
ParseQuery(query) ==
    LET pair(kv) == [key |-> QueryUnescape(Before(kv, "=")),
                     value |-> QueryUnescape(After(kv, "="))]
        good == SelectSeq(Split(query, "&"),
                          LAMBDA kv : /\ kv # <<>>
                                      /\ pair(kv).key.ok
                                      /\ pair(kv).value.ok)
    IN  [n \in 1..Len(good) |-> [key |-> pair(good[n]).key.value,
                                 value |-> pair(good[n]).value.value]]

\* url.Values.Get: the first value of the key, or the empty string
Get(values, key) ==
    LET of == SelectSeq(values, LAMBDA p : p.key = key)
    IN  IF of = <<>> THEN <<>> ELSE of[1].value

HttpLocalhost == <<"h", "t", "t", "p", ":", "/", "/", "l", "o", "c", "a", "l", "h", "o", "s", "t">>

HttpsLocalhost == <<"h", "t", "t", "p", "s", ":", "/", "/", "l", "o", "c", "a", "l", "h", "o", "s", "t">>

CodeKey == <<"c", "o", "d", "e">>

\* the authorization code in a line of input
extractAuthCode(input) ==
    LET in == TrimSpace(input)
    IN  IF HasPrefix(in, HttpLocalhost) \/ HasPrefix(in, HttpsLocalhost)
        THEN IF ~Parse(in).err THEN Get(ParseQuery(Parse(in).RawQuery), CodeKey)
             ELSE <<>>
        ELSE in

\* The lines a user can type, by their parts: white space around a body that
\* is raw text or a redirect URL copied from the browser.
MaxParams == 2

\* a query parameter as the browser shows it: escaped, as typed, or with an
\* escape cut short
Params ==
    [key : {CodeKey}, value : {<<"a", "b">>, <<"4", "/", "0">>, <<"a", " ", "b">>},
     enc : {"escaped", "raw", "cut"}]
    \cup [key : {<<"s", "t", "a", "t", "e">>, <<"e", "r", "r", "o", "r">>}, value : {<<"a", "b">>}, enc : {"escaped"}]

Bodies ==
    [kind : {"raw"}, text : {<<>>, <<"a", "b">>, <<"4", "/", "0">>, <<"4", "%", "2", "F", "0">>, <<"a", " ", "b">>, <<"h", "t", "t", "p", ":">>}]
    \cup [kind : {"url"},
          prefix : {HttpLocalhost, HttpsLocalhost},
          host : {[text |-> <<>>, valid |-> TRUE],
                  [text |-> <<":", "8", "0", "8", "0">>, valid |-> TRUE],
                  [text |-> <<" ", "x">>, valid |-> FALSE],
                  [text |-> <<":", "8", "a">>, valid |-> FALSE]},
          path : {[text |-> <<>>, valid |-> TRUE],
                  [text |-> <<"/", "c", "b">>, valid |-> TRUE],
                  [text |-> <<"/", "c", "\t", "b">>, valid |-> FALSE]},
          params : UNION {[1..n -> Params] : n \in 0..MaxParams},
          fragment : {<<>>, <<"#", "c", "o", "d", "e", "=", "a", "b">>}]

LineParts == [lead : {<<>>, <<" ">>}, body : Bodies, trail : {<<"\n">>, <<" ", "\r", "\n">>}]

\* url.QueryEscape
QueryEscape(s) ==
    LET enc(c) == IF c = "/" THEN <<"%", "2", "F">> ELSE IF c = " " THEN <<"+">> ELSE <<c>>
        F[n \in 0..Len(s)] == IF n = 0 THEN <<>> ELSE F[n - 1] \o enc(s[n])
    IN  F[Len(s)]

\* the line as reader.ReadString('\n') returns it
LineText(x) ==
    LET param(p) ==
            p.key \o <<"=">> \o (IF p.enc = "escaped" THEN QueryEscape(p.value)
                             ELSE IF p.enc = "raw" THEN p.value
                             ELSE p.value \o <<"%", "2">>)
        query(ps) ==
            LET F[n \in 0..Len(ps)] ==
                    IF n = 0 THEN <<>>
                    ELSE F[n - 1] \o (IF n = 1 THEN <<"?">> ELSE <<"&">>) \o param(ps[n])
            IN  F[Len(ps)]
        b == x.body
    IN  x.lead
        \o (IF b.kind = "raw" THEN b.text
            ELSE b.prefix \o b.host.text \o b.path.text \o query(b.params)
                 \o b.fragment)
        \o x.trail

\* the lines typed during an authorization attempt: nothing, a code, a
\* redirect URL with a code, a redirect URL with an error
Lines ==
    {LineText([lead |-> <<>>, body |-> b, trail |-> <<"\n">>]) :
        b \in {[kind |-> "raw", text |-> <<>>],
               [kind |-> "raw", text |-> <<"a", "b">>],
               [kind |-> "url", prefix |-> HttpLocalhost,
                host |-> [text |-> <<":", "8", "0", "8", "0">>, valid |-> TRUE],
                path |-> [text |-> <<"/", "c", "b">>, valid |-> TRUE],
                params |-> <<[key |-> CodeKey, value |-> <<"4", "/", "0">>, enc |-> "escaped"]>>,
                fragment |-> <<>>],
               [kind |-> "url", prefix |-> HttpLocalhost,
                host |-> [text |-> <<":", "8", "0", "8", "0">>, valid |-> TRUE],
                path |-> [text |-> <<"/", "c", "b">>, valid |-> TRUE],
                params |-> <<[key |-> <<"e", "r", "r", "o", "r">>, value |-> <<"a", "b">>, enc |-> "escaped"]>>,
                fragment |-> <<>>]}}

VARIABLES
    typed,       \* the line given to extractAuthCode, by its parts
    extracted    \* whether extractAuthCode was called, and what it returned

exVars == <<typed, extracted>>

ExIdle ==
    /\ typed = NoLine
    /\ extracted = [called |-> FALSE, code |-> <<>>]

\* code = extractAuthCode(input)
ExtractAuthCode ==
    /\ ~extracted.called
    /\ extracted' = [called |-> TRUE, code |-> extractAuthCode(LineText(typed))]
    /\ UNCHANGED typed

\* the token the token endpoint returns for the code
ExchangedToken ==
    [AccessToken |-> "A", RefreshToken |-> "R", TokenType |-> "Bearer",
     Expiry |-> ZeroTime]

Resolved == via # "none"

\* the first of callback, input and deadline to complete
Completed(what) == IF firstDone = "none" THEN what ELSE firstDone

Without(q, g) == SelectSeq(q, LAMBDA x : x # g)

\* a send on the result channel: handed to the longest waiting receiver, else
\* buffered when the buffer has room, else blocked
SendResult(r) ==
    /\ recvq # <<>> \/ Len(resultChan) < ResultChanCap
    /\ late' = IF Resolved THEN late \cup {r} ELSE late
    /\ firstDone' = Completed("http")
    /\ IF recvq # <<>> /\ Head(recvq) = "main"
       THEN /\ mGot' = r
            /\ via' = "http"
            /\ mpc' = "resolved"
            /\ recvq' = Tail(recvq)
            /\ UNCHANGED <<resultChan, wGot, wpc>>
       ELSE IF recvq # <<>> /\ Head(recvq) = "watcher"
       THEN /\ wGot' = Append(wGot, [res |-> r, pending |-> ~Resolved])
            /\ wpc' = "sleep"
            /\ recvq' = Tail(recvq)
            /\ UNCHANGED <<resultChan, mGot, via, mpc>>
       ELSE /\ resultChan' = Append(resultChan, r)
            /\ UNCHANGED <<recvq, mGot, via, mpc, wGot, wpc>>

\* runInit returns: the deferred cancel() ends the context, which wakes a
\* watcher blocked in its select
Return(err) ==
    /\ ret' = err
    /\ mpc' = "returned"
    /\ ctx' = "done"
    /\ wpc' = IF wpc = "blocked" THEN "sleep" ELSE wpc
    /\ recvq' = Without(recvq, "watcher")

\* ctx, cancel := context.WithTimeout(...); StartCallbackServer: bind the port,
\* start the Serve goroutine and the shutdown watcher
MainStartServer ==
    /\ mpc = "start"
    /\ \E bindOk \in BOOLEAN :
          IF bindOk
          THEN /\ srv' = "listening"
               /\ spc' = "serving"
               /\ wpc' = "select"
               /\ mpc' = "spawn"
          ELSE /\ mpc' = "manual"
               /\ UNCHANGED <<srv, spc, wpc>>
    /\ ctx' = "live"
    /\ UNCHANGED <<deadline, resultChan, recvq, arrived, hpc, hres, wGot, ipc,
                   inputChan, mGot, mIn, code, ret, via, firstDone, late,
                   storeVars>>

\* the deadline of the context fires: every select blocked on ctx.Done()
\* resolves
Deadline ==
    /\ ctx = "live"
    /\ deadline' = TRUE
    /\ ctx' = "done"
    /\ firstDone' = Completed("deadline")
    /\ wpc' = IF wpc = "blocked" THEN "sleep" ELSE wpc
    /\ mpc' = IF mpc = "blocked" THEN "resolved" ELSE mpc
    /\ via' = IF mpc = "blocked" THEN "deadline" ELSE via
    /\ recvq' = <<>>
    /\ UNCHANGED <<srv, resultChan, arrived, hpc, hres, spc, wGot, ipc,
                   inputChan, mGot, mIn, code, ret, late, storeVars>>

\* the server accepts a GET /callback request; its handler computes the result
Request ==
    /\ srv = "listening"
    /\ arrived < MaxReq
    /\ arrived' = arrived + 1
    /\ \E q \in Queries :
          hres' = [hres EXCEPT ![arrived + 1] = handler(q)]
    /\ hpc' = [hpc EXCEPT ![arrived + 1] = "send"]
    /\ UNCHANGED <<mpc, ctx, deadline, srv, resultChan, recvq, spc, wpc, wGot,
                   ipc, inputChan, mGot, mIn, code, ret, via, firstDone, late,
                   storeVars>>

\* resultChan <- CallbackResult{...}, then the page is written
HandlerSend(h) ==
    /\ hpc[h] = "send"
    /\ SendResult(hres[h])
    /\ hpc' = [hpc EXCEPT ![h] = "done"]
    /\ hres' = [hres EXCEPT ![h] = NoResult]
    /\ UNCHANGED <<ctx, deadline, srv, arrived, spc, ipc, inputChan, mIn, code,
                   ret, storeVars>>

\* server.Serve returns an error other than ErrServerClosed
ServeFail ==
    /\ spc = "serving"
    /\ srv = "listening"
    /\ srv' = "closed"
    /\ spc' = "send"
    /\ UNCHANGED <<mpc, ctx, deadline, resultChan, recvq, arrived, hpc, hres,
                   wpc, wGot, ipc, inputChan, mGot, mIn, code, ret, via,
                   firstDone, late, storeVars>>

\* resultChan <- CallbackResult{Error: "callback server error: ..."}
ServeSend ==
    /\ spc = "send"
    /\ SendResult(CallbackResult("", "callback server error"))
    /\ spc' = "exited"
    /\ UNCHANGED <<ctx, deadline, srv, arrived, hpc, hres, ipc, inputChan, mIn,
                   code, ret, storeVars>>

\* server.Serve returns ErrServerClosed after server.Close()
ServeExit ==
    /\ spc = "serving"
    /\ srv = "closed"
    /\ spc' = "exited"
    /\ UNCHANGED <<mpc, ctx, deadline, srv, resultChan, recvq, arrived, hpc,
                   hres, wpc, wGot, ipc, inputChan, mGot, mIn, code, ret, via,
                   firstDone, late, storeVars>>

\* the watcher's select: case <-resultChan, a result being buffered
WatcherRecv ==
    /\ wpc = "select"
    /\ resultChan # <<>>
    /\ wGot' = Append(wGot, [res |-> Head(resultChan), pending |-> ~Resolved])
    /\ resultChan' = Tail(resultChan)
    /\ wpc' = "sleep"
    /\ UNCHANGED <<mpc, ctx, deadline, srv, recvq, arrived, hpc, hres, spc, ipc,
                   inputChan, mGot, mIn, code, ret, via, firstDone, late,
                   storeVars>>

\* the watcher's select: case <-ctx.Done(), the context having ended
WatcherCtxDone ==
    /\ wpc = "select"
    /\ ctx = "done"
    /\ wpc' = "sleep"
    /\ UNCHANGED <<mpc, ctx, deadline, srv, resultChan, recvq, arrived, hpc,
                   hres, spc, wGot, ipc, inputChan, mGot, mIn, code, ret, via,
                   firstDone, late, storeVars>>

\* the watcher's select with no case ready
WatcherBlock ==
    /\ wpc = "select"
    /\ resultChan = <<>>
    /\ ctx # "done"
    /\ wpc' = "blocked"
    /\ recvq' = Append(recvq, "watcher")
    /\ UNCHANGED <<mpc, ctx, deadline, srv, resultChan, arrived, hpc, hres, spc,
                   wGot, ipc, inputChan, mGot, mIn, code, ret, via, firstDone,
                   late, storeVars>>

\* time.Sleep(100 * time.Millisecond); server.Close()
WatcherClose ==
    /\ wpc = "sleep"
    /\ wpc' = "done"
    /\ srv' = "closed"
    /\ UNCHANGED <<mpc, ctx, deadline, resultChan, recvq, arrived, hpc, hres,
                   spc, wGot, ipc, inputChan, mGot, mIn, code, ret, via,
                   firstDone, late, storeVars>>

\* inputChan := make(chan string, 1); go func() { ... }()
MainSpawnInput ==
    /\ mpc = "spawn"
    /\ ipc' = "reading"
    /\ mpc' = "select"
    /\ UNCHANGED <<ctx, deadline, srv, resultChan, recvq, arrived, hpc, hres,
                   spc, wpc, wGot, inputChan, mGot, mIn, code, ret, via,
                   firstDone, late, storeVars>>

\* input, _ := reader.ReadString('\n'); inputChan <- strings.TrimSpace(input)
\* (an end of input gives the empty line); runInit is the only receiver
StdinLine ==
    /\ ipc = "reading"
    /\ \E l \in Lines :
          IF mpc = "blocked"
          THEN /\ mIn' = TrimSpace(l)
               /\ via' = "input"
               /\ mpc' = "resolved"
               /\ recvq' = Without(recvq, "main")
               /\ UNCHANGED inputChan
          ELSE /\ inputChan' = Append(inputChan, TrimSpace(l))
               /\ UNCHANGED <<mIn, via, mpc, recvq>>
    /\ ipc' = "done"
    /\ firstDone' = Completed("input")
    /\ UNCHANGED <<ctx, deadline, srv, resultChan, arrived, hpc, hres, spc, wpc,
                   wGot, mGot, code, ret, late, storeVars>>

\* select: case result := <-resultChan, a result being buffered
MainSelectResult ==
    /\ mpc = "select"
    /\ resultChan # <<>>
    /\ mGot' = Head(resultChan)
    /\ resultChan' = Tail(resultChan)
    /\ via' = "http"
    /\ mpc' = "resolved"
    /\ UNCHANGED <<ctx, deadline, srv, recvq, arrived, hpc, hres, spc, wpc, wGot,
                   ipc, inputChan, mIn, code, ret, firstDone, late, storeVars>>

\* select: case input := <-inputChan, a line being buffered
MainSelectInput ==
    /\ mpc = "select"
    /\ inputChan # <<>>
    /\ mIn' = Head(inputChan)
    /\ inputChan' = Tail(inputChan)
    /\ via' = "input"
    /\ mpc' = "resolved"
    /\ UNCHANGED <<ctx, deadline, srv, resultChan, recvq, arrived, hpc, hres,
                   spc, wpc, wGot, ipc, mGot, code, ret, firstDone, late,
                   storeVars>>

\* select: case <-ctx.Done(), the context having ended
MainSelectTimeout ==
    /\ mpc = "select"
    /\ ctx = "done"
    /\ via' = "deadline"
    /\ mpc' = "resolved"
    /\ UNCHANGED <<ctx, deadline, srv, resultChan, recvq, arrived, hpc, hres,
                   spc, wpc, wGot, ipc, inputChan, mGot, mIn, code, ret,
                   firstDone, late, storeVars>>

\* select with no case ready
MainBlock ==
    /\ mpc = "select"
    /\ resultChan = <<>>
    /\ inputChan = <<>>
    /\ ctx # "done"
    /\ mpc' = "blocked"
    /\ recvq' = Append(recvq, "main")
    /\ UNCHANGED <<ctx, deadline, srv, resultChan, arrived, hpc, hres, spc, wpc,
                   wGot, ipc, inputChan, mGot, mIn, code, ret, via, firstDone,
                   late, storeVars>>

\* the body of the select case that was taken
MainResolve ==
    /\ mpc = "resolved"
    /\ IF via = "http" /\ mGot.Error # ""
       THEN /\ Return("authorization failed: " \o mGot.Error)
            /\ UNCHANGED code
       ELSE IF via = "deadline"
       THEN /\ Return("authorization timed out")
            /\ UNCHANGED code
       ELSE /\ code' = IF via = "http" THEN mGot.Code ELSE Str(extractAuthCode(mIn))
            /\ mpc' = "check"
            /\ UNCHANGED <<ret, ctx, wpc, recvq>>
    /\ mIn' = NoLine
    /\ UNCHANGED <<deadline, srv, resultChan, arrived, hpc, hres, spc, wGot, ipc,
                   inputChan, mGot, via, firstDone, late, storeVars>>

\* no server: read one line from the terminal
MainManual ==
    /\ mpc = "manual"
    /\ \E l \in Lines : code' = Str(extractAuthCode(TrimSpace(l)))
    /\ via' = "input"
    /\ firstDone' = Completed("input")
    /\ mpc' = "check"
    /\ UNCHANGED <<ctx, deadline, srv, resultChan, recvq, arrived, hpc, hres,
                   spc, wpc, wGot, ipc, inputChan, mGot, mIn, ret, late,
                   storeVars>>

\* runInit without the test of the code: the exchange is attempted with any code
MainCheckNoTest ==
    /\ mpc = "check"
    /\ mpc' = "exchange"
    /\ UNCHANGED <<ret, ctx, wpc, recvq>>
    /\ UNCHANGED <<deadline, srv, resultChan, arrived, hpc, hres, spc, wGot, ipc,
                   inputChan, mGot, mIn, code, via, firstDone, late, storeVars>>

\* if code == "" { return "no authorization code received" }
MainCheck ==
    /\ mpc = "check"
    /\ IF code = ""
       THEN Return("no authorization code received")
       ELSE /\ mpc' = "exchange"
            /\ UNCHANGED <<ret, ctx, wpc, recvq>>
    /\ UNCHANGED <<deadline, srv, resultChan, arrived, hpc, hres, spc, wGot, ipc,
                   inputChan, mGot, mIn, code, via, firstDone, late, storeVars>>

\* auth.ExchangeAuthCode(ctx, oauthConfig, code): fails when the endpoint
\* rejects the code or the context has ended
MainExchange ==
    /\ mpc = "exchange"
    /\ \E accepted \in BOOLEAN :
          IF accepted /\ ctx = "live"
          THEN /\ mpc' = "save"
               /\ UNCHANGED <<ret, ctx, wpc, recvq>>
          ELSE Return("failed to exchange authorization code")
    /\ UNCHANGED <<deadline, srv, resultChan, arrived, hpc, hres, spc, wGot, ipc,
                   inputChan, mGot, mIn, code, via, firstDone, late, storeVars>>

\* keychain.SetToken(token); the connectivity check that follows succeeds
\* or fails
MainSave ==
    /\ mpc = "save"
    /\ \E delOk \in BOOLEAN, addOk \in BOOLEAN :
       \E fault \in IF addOk THEN {"none"} ELSE FileWriteFaults :
       \E verified \in IF ~addOk /\ fault # "none" THEN {FALSE} ELSE BOOLEAN :
          LET r == setToken(kc, file, ExchangedToken, delOk, addOk, fault)
          IN  /\ kc' = r.kc
              /\ file' = r.file
              /\ op' = Call("SetToken", ExchangedToken, r.err, NilToken, r.kcErr,
                            r.fileErr, r.warned, ~addOk \/ fault # "none")
              /\ Return(IF r.err # "" THEN "failed to save token"
                        ELSE IF verified THEN "" ELSE "failed to verify")
    /\ UNCHANGED <<deadline, srv, resultChan, arrived, hpc, hres, spc, wGot, ipc,
                   inputChan, mGot, mIn, code, via, firstDone, late, legacy>>

\* the token stored by an earlier run of init
StoredToken ==
    [AccessToken |-> "A", RefreshToken |-> "R", TokenType |-> "Bearer",
     Expiry |-> "2026-01-01T00:00:00Z"]

\* if keychain.HasStoredToken() { ... }: with a stored token and without
\* --no-verify, init returns when verifyConnectivity succeeds, when the
\* confirmation prompt fails and when the user declines; otherwise it
\* deletes the stored token and goes on to the authorization
MainExisting ==
    /\ mpc = "existing"
    /\ \E readOk \in BOOLEAN :
       \E rfault \in IF getFromKeychain(kc, readOk).err = "" THEN {"none"}
                     ELSE FileReadFaults :
       \E noVerify \in BOOLEAN :
          IF ~HasStoredToken(kc, file, readOk, rfault) \/ noVerify
          THEN /\ mpc' = "start"
               /\ UNCHANGED <<ret, storeVars>>
          ELSE \E outcome \in {"working", "prompt failed", "declined", "reauth"} :
               IF outcome # "reauth"
               THEN /\ mpc' = "returned"
                    /\ ret' = IF outcome = "prompt failed"
                              THEN "prompt failed" ELSE ""
                    /\ UNCHANGED storeVars
               ELSE \E delOk \in BOOLEAN, fault \in FileRemoveFaults :
                    LET r == deleteToken(kc, file, delOk, fault)
                    IN  /\ kc' = r.kc
                        /\ file' = r.file
                        /\ op' = Call("DeleteToken", NilToken, r.err, NilToken,
                                      r.kcErr, r.fileErr, FALSE,
                                      ~delOk \/ fault # "none")
                        /\ mpc' = IF r.err # "" THEN "returned" ELSE "start"
                        /\ ret' = IF r.err # "" THEN "failed to clear token"
                                  ELSE ret
                        /\ UNCHANGED legacy
    /\ UNCHANGED <<ctx, deadline, srv, resultChan, recvq, arrived, hpc, hres,
                   spc, wpc, wGot, ipc, inputChan, mGot, mIn, code, via,
                   firstDone, late>>

\* init at position pos, nothing started
CBIdleAt(pos) ==
    /\ mpc = pos
    /\ ctx = "none"
    /\ deadline = FALSE
    /\ srv = "off"
    /\ resultChan = <<>>
    /\ recvq = <<>>
    /\ arrived = 0
    /\ hpc = [h \in Reqs |-> "idle"]
    /\ hres = [h \in Reqs |-> NoResult]
    /\ spc = "off"
    /\ wpc = "off"
    /\ wGot = <<>>
    /\ ipc = "off"
    /\ inputChan = <<>>
    /\ mGot = NoResult
    /\ mIn = NoLine
    /\ code = ""
    /\ ret = "pending"
    /\ via = "none"
    /\ firstDone = "none"
    /\ late = {}

CBIdle == CBIdleAt("start")

----------------------------------------------------------------------------
(* Modes of the token file and of the config directory                     *)

VARIABLES fileMode, dirMode

permVars == <<fileMode, dirMode>>

\* the permission bits of a mode
PermBits == {"ur", "uw", "ux", "gr", "gw", "gx", "or", "ow", "ox"}

\* DirPerm = 0700, FilePerm = 0600
DirPerm  == {"ur", "uw", "ux"}
FilePerm == {"ur", "uw"}

\* umask 000, 022 and 077
Umasks == {{}, {"gw", "ow"}, {"gr", "gw", "gx", "or", "ow", "ox"}}

NoNode  == [exists |-> FALSE]
Node(m) == [exists |-> TRUE, mode |-> m]

\* os.MkdirAll(dir, perm): a directory that exists is left as it is
MkdirAll(d, perm, umask) == IF d.exists THEN d ELSE Node(perm \ umask)

\* os.OpenFile(path, O_RDWR|O_CREATE|O_TRUNC, perm): the mode is given to a
\* file that is created; a file that exists keeps its mode
OpenFile(f, perm, umask) == IF f.exists THEN f ELSE Node(perm \ umask)

\* SetToken with the modes of the nodes of the file system: GetConfigDir
\* creates the directory, setInConfigFile creates or truncates the file
SetTokenModes(t) ==
    \E delOk \in BOOLEAN, addOk \in BOOLEAN, umask \in Umasks :
    \E fault \in IF addOk THEN {"none"} ELSE FileWriteFaults :
        LET r == setToken(kc, file, t, delOk, addOk, fault)
        IN  /\ kc' = r.kc
            /\ file' = r.file
            /\ op' = Call("SetToken", t, r.err, NilToken, r.kcErr, r.fileErr,
                          r.warned, ~addOk \/ fault # "none")
            /\ dirMode' = IF addOk \/ fault = "path" THEN dirMode
                          ELSE MkdirAll(dirMode, DirPerm, umask)
            /\ fileMode' = IF addOk \/ fault \in {"path", "mkdir", "open"}
                           THEN fileMode
                           ELSE OpenFile(fileMode, FilePerm, umask)
            /\ UNCHANGED legacy

\* DeleteToken with the modes: os.Remove takes the file away
DeleteTokenModes ==
    \E delOk \in BOOLEAN, fault \in FileRemoveFaults :
        LET r == deleteToken(kc, file, delOk, fault)
        IN  /\ kc' = r.kc
            /\ file' = r.file
            /\ op' = Call("DeleteToken", NilToken, r.err, NilToken, r.kcErr,
                          r.fileErr, FALSE, ~delOk \/ fault # "none")
            /\ fileMode' = IF r.file.kind = "absent" THEN NoNode ELSE fileMode
            /\ UNCHANGED <<dirMode, legacy>>

\* the modes are followed in SpecPerm only
PermIdle ==
    /\ fileMode = NoNode
    /\ dirMode = NoNode

----------------------------------------------------------------------------
(* Specifications                                                          *)

vars == <<storeVars, ptsVars, cbVars, exVars, permVars>>

\* the store on its own, from an empty keychain and no token file
StoreInit ==
    /\ kc = NoItem
    /\ file = Absent
    /\ legacy = Absent
    /\ op = NoOp
    /\ PTSIdle
    /\ CBIdle
    /\ ExIdle
    /\ PermIdle

StoreNext ==
    \/ (\E t \in Tokens : SetToken(t)) /\ UNCHANGED <<ptsVars, cbVars, exVars, permVars>>
    \/ GetToken /\ UNCHANGED <<ptsVars, cbVars, exVars, permVars>>
    \/ DeleteToken /\ UNCHANGED <<ptsVars, cbVars, exVars, permVars>>
    \/ (\E t \in Tokens : SetInConfigFile(t)) /\ UNCHANGED <<ptsVars, cbVars, exVars, permVars>>
    \/ GetFromConfigFile /\ UNCHANGED <<ptsVars, cbVars, exVars, permVars>>
    \/ (\E t \in Tokens : SetInKeychain(t)) /\ UNCHANGED <<ptsVars, cbVars, exVars, permVars>>
    \/ GetFromKeychain /\ UNCHANGED <<ptsVars, cbVars, exVars, permVars>>
    \/ GetStorageBackend /\ UNCHANGED <<ptsVars, cbVars, exVars, permVars>>

SpecStore == StoreInit /\ [][StoreNext]_vars

\* migration and erasure, from a keychain and files as earlier versions and
\* earlier runs can have left them
MigTokens ==
    {t \in Tokens : /\ t.Expiry # ZeroTime
                    /\ \/ t.AccessToken = "B"
                       \/ (t.RefreshToken = "" /\ t.TokenType = "")}

MigrateInit ==
    /\ kc \in {NoItem} \cup {Item(MarshalToken(t)) : t \in MigTokens}
    /\ file \in {Absent} \cup {Content(MarshalToken(t)) : t \in MigTokens}
    /\ legacy \in {Absent, Truncated} \cup {Content(MarshalToken(t)) : t \in MigTokens}
    /\ op = NoOp
    /\ PTSIdle
    /\ CBIdle
    /\ ExIdle
    /\ PermIdle

MigrateNext ==
    \/ (\E p \in Paths : Migrate(p)) /\ UNCHANGED <<ptsVars, cbVars, exVars, permVars>>
    \/ (\E p \in Paths : SecureDelete(p)) /\ UNCHANGED <<ptsVars, cbVars, exVars, permVars>>

SpecMigrate == MigrateInit /\ [][MigrateNext]_vars

\* concurrent callers of Token() on one PersistentTokenSource
PTSStart == PTSInit /\ CBIdle /\ ExIdle /\ PermIdle

PTSStep ==
    \/ (\E i \in Threads : Delegate(i)) /\ UNCHANGED <<cbVars, exVars, permVars>>
    \/ (\E i \in Threads : Lock(i)) /\ UNCHANGED <<cbVars, exVars, permVars>>
    \/ (\E i \in Threads : Compare(i)) /\ UNCHANGED <<cbVars, exVars, permVars>>
    \/ (\E i \in Threads : Persist(i)) /\ UNCHANGED <<cbVars, exVars, permVars>>
    \/ (\E i \in Threads : Unlock(i)) /\ UNCHANGED <<cbVars, exVars, permVars>>

SpecPTS == PTSStart /\ [][PTSStep]_vars

\* one authorization attempt of the init command
CBInit ==
    /\ kc = NoItem
    /\ file = Absent
    /\ legacy = Absent
    /\ op = NoOp
    /\ PTSIdle
    /\ CBIdle
    /\ ExIdle
    /\ PermIdle

CBNext ==
    \/ MainStartServer /\ UNCHANGED <<ptsVars, exVars, permVars>>
    \/ Deadline /\ UNCHANGED <<ptsVars, exVars, permVars>>
    \/ Request /\ UNCHANGED <<ptsVars, exVars, permVars>>
    \/ (\E h \in Reqs : HandlerSend(h)) /\ UNCHANGED <<ptsVars, exVars, permVars>>
    \/ ServeFail /\ UNCHANGED <<ptsVars, exVars, permVars>>
    \/ ServeSend /\ UNCHANGED <<ptsVars, exVars, permVars>>
    \/ ServeExit /\ UNCHANGED <<ptsVars, exVars, permVars>>
    \/ WatcherRecv /\ UNCHANGED <<ptsVars, exVars, permVars>>
    \/ WatcherCtxDone /\ UNCHANGED <<ptsVars, exVars, permVars>>
    \/ WatcherBlock /\ UNCHANGED <<ptsVars, exVars, permVars>>
    \/ WatcherClose /\ UNCHANGED <<ptsVars, exVars, permVars>>
    \/ MainSpawnInput /\ UNCHANGED <<ptsVars, exVars, permVars>>
    \/ StdinLine /\ UNCHANGED <<ptsVars, exVars, permVars>>
    \/ MainSelectResult /\ UNCHANGED <<ptsVars, exVars, permVars>>
    \/ MainSelectInput /\ UNCHANGED <<ptsVars, exVars, permVars>>
    \/ MainSelectTimeout /\ UNCHANGED <<ptsVars, exVars, permVars>>
    \/ MainBlock /\ UNCHANGED <<ptsVars, exVars, permVars>>
    \/ MainResolve /\ UNCHANGED <<ptsVars, exVars, permVars>>
    \/ MainManual /\ UNCHANGED <<ptsVars, exVars, permVars>>
    \/ MainCheck /\ UNCHANGED <<ptsVars, exVars, permVars>>
    \/ MainExchange /\ UNCHANGED <<ptsVars, exVars, permVars>>
    \/ MainSave /\ UNCHANGED <<ptsVars, exVars, permVars>>

SpecInit == CBInit /\ [][CBNext]_vars

\* init run again with a token stored by an earlier run
ReauthInit ==
    /\ kc = Item(MarshalToken(StoredToken))
    /\ file = Absent
    /\ legacy = Absent
    /\ op = NoOp
    /\ PTSIdle
    /\ CBIdleAt("existing")
    /\ ExIdle
    /\ PermIdle

ReauthNext ==
    \/ MainExisting /\ UNCHANGED <<ptsVars, exVars, permVars>>
    \/ CBNext

SpecReauth == ReauthInit /\ [][ReauthNext]_vars

\* extractAuthCode on its own, on every line of LineParts
ExtractInit ==
    /\ kc = NoItem
    /\ file = Absent
    /\ legacy = Absent
    /\ op = NoOp
    /\ PTSIdle
    /\ CBIdle
    /\ typed \in LineParts
    /\ extracted = [called |-> FALSE, code |-> <<>>]
    /\ PermIdle

ExtractNext == ExtractAuthCode /\ UNCHANGED <<storeVars, ptsVars, cbVars, permVars>>

SpecExtract == ExtractInit /\ [][ExtractNext]_vars

\* the file fallback on a file system where an earlier version or another
\* program can have left the directory and the token file with wider modes
PermInit ==
    /\ kc = NoItem
    /\ dirMode \in {NoNode, Node(DirPerm), Node(DirPerm \cup {"gr", "gx", "or", "ox"})}
    /\ fileMode \in IF dirMode.exists
                    THEN {NoNode, Node(FilePerm), Node(FilePerm \cup {"gr", "or"})}
                    ELSE {NoNode}
    /\ file = IF fileMode.exists THEN Content(MarshalToken(StoredToken)) ELSE Absent
    /\ legacy = Absent
    /\ op = NoOp
    /\ PTSIdle
    /\ CBIdle
    /\ ExIdle

PermNext ==
    \/ (\E t \in Tokens : SetTokenModes(t)) /\ UNCHANGED <<ptsVars, cbVars, exVars>>
    \/ DeleteTokenModes /\ UNCHANGED <<ptsVars, cbVars, exVars>>

SpecPerm == PermInit /\ [][PermNext]_vars

----------------------------------------------------------------------------
(* Properties of PersistentTokenSource                                     *)

Quiescent == \A i \in Threads : pc[i] = "idle"

NoSetFault == \A k \in 1..Len(setLog) : ~setLog[k].fault

\* what the store returns when read without an injected fault
Stored == getToken(kc, file, TRUE, "none").tok

C2_SetIffChanged ==
    /\ \A i \in Threads :
          (pc[i] = "unlock" \/ (pc[i] = "idle" /\ tok[i] # NilToken)) =>
              (didSet[i] <=> tok[i] # seenCached[i])
    /\ \A i \in Threads : pc[i] \in {"got", "compare"} => ~didSet[i]
    /\ Len(setLog) <= Len(obs)
    /\ (\A k \in 1..Len(obs) : k > 1 => obs[k] = obs[1]) => Len(setLog) <= 1

\* every caller has returned the same, already cached token: after the first
\* observation no further Set was made
C2_Witness ==
    /\ Quiescent
    /\ overlap
    /\ Len(obs) = MaxCalls
    /\ \A k \in 1..Len(obs) : obs[k] = obs[1]
    /\ Len(setLog) = 1
    /\ \E i \in Threads : ~didSet[i] /\ tok[i] = seenCached[i]

\* C3: when two successive Token() calls get token A and then a different
\* token B from the inner source, Set is invoked exactly twice, with A and
\* then B, and the store then holds B (when it accepted the Sets without a
\* backend fault).
C3_TwoSets ==
    (Quiescent /\ ~overlap /\ Len(obs) = 2 /\ obs[1] # obs[2]) =>
        /\ Len(setLog) = 2
        /\ setLog[1].tok = obs[1]
        /\ setLog[2].tok = obs[2]
        /\ NoSetFault => Stored = obs[2]

C3_Witness ==
    /\ Quiescent
    /\ ~overlap
    /\ Len(obs) = 2
    /\ obs[1] # obs[2]
    /\ Len(setLog) = 2
    /\ NoSetFault
    /\ Stored = obs[2]

----------------------------------------------------------------------------
(* Properties of the credential store                                      *)

\* C8: for the file backend and for the keychain backend, a Set of token t
\* that returned ok, followed by a Get of the same backend into which no
\* fault is injected, yields a record equal to t in all four fields.
C8_RoundTrip ==
    [][ /\ (op.name = "setInConfigFile" /\ op.err = ""
            /\ op'.name = "getFromConfigFile" /\ ~op'.fault)
           => (op'.err = "" /\ op'.tok = op.arg)
        /\ (op.name = "setInKeychain" /\ op.err = ""
            /\ op'.name = "getFromKeychain" /\ ~op'.fault)
           => (op'.err = "" /\ op'.tok = op.arg) ]_vars

\* a token with empty optional fields and a set expiry has been written to
\* the file and read back from it
C8_Witness ==
    /\ op.name = "getFromConfigFile"
    /\ op.err = ""
    /\ op.tok \in Tokens
    /\ op.tok.RefreshToken = ""
    /\ op.tok.Expiry # ZeroTime
    /\ file = Content(MarshalToken(op.tok))

\* C9: SetToken calls the keychain first; it calls the file fallback exactly
\* when the keychain write failed, and then with a warning; the file is not
\* changed by a Set whose keychain write succeeded; SetToken returns ok
\* exactly when the keychain or the file accepted the token, and the token is
\* then held by the backend that accepted it.
C9_WritePolicy ==
    [][ op'.name = "SetToken" =>
          /\ op'.kcErr # "skipped"
          /\ (op'.fileErr # "skipped") <=> (op'.kcErr # "")
          /\ op'.warned <=> (op'.kcErr # "")
          /\ op'.kcErr = "" => (file' = file /\ kc' = Item(MarshalToken(op'.arg)))
          /\ file' # file => op'.kcErr # ""
          /\ (op'.err = "") <=> (op'.kcErr = "" \/ op'.fileErr = "")
          /\ (op'.err = "" /\ op'.kcErr # "")
                => file' = Content(MarshalToken(op'.arg)) ]_vars

\* the keychain write failed and the file fallback accepted the token
C9_Witness ==
    /\ op.name = "SetToken"
    /\ op.kcErr # ""
    /\ op.warned
    /\ op.err = ""
    /\ file = Content(MarshalToken(op.arg))
    /\ kc # Item(MarshalToken(op.arg))

\* C10 as claimed: GetToken answers from the keychain when it yields a
\* record, else from the file, whatever earlier calls answered from, and
\* whenever no backend holds a record (and no fault is injected) the result
\* is ErrTokenNotFound.
C10_ReadPolicy_Claimed ==
    [][ op'.name = "GetToken" =>
          /\ op'.kcErr = "" =>
                (kc.kind = "item" /\ op'.err = "" /\ op'.tok = UnmarshalToken(kc.data))
          /\ (op'.kcErr # "" /\ op'.err = "") =>
                (file.kind = "json" /\ op'.tok = UnmarshalToken(file.data))
          /\ (kc.kind = "item" /\ ~op'.fault) => op'.kcErr = ""
          /\ (kc.kind = "none" /\ file.kind = "json" /\ ~op'.fault) => op'.err = ""
          /\ (kc.kind # "item" /\ file.kind # "json" /\ ~op'.fault)
                => op'.err = ErrTokenNotFound ]_vars

\* C10 as amended: the same, with ErrTokenNotFound the result when the
\* keychain holds no item and the token file does not exist; a token file
\* that exists without holding a record gives an error that is not the
\* sentinel.
C10_ReadPolicy ==
    [][ op'.name = "GetToken" =>
          /\ op'.kcErr = "" =>
                (kc.kind = "item" /\ op'.err = "" /\ op'.tok = UnmarshalToken(kc.data))
          /\ (op'.kcErr # "" /\ op'.err = "") =>
                (file.kind = "json" /\ op'.tok = UnmarshalToken(file.data))
          /\ (kc.kind = "item" /\ ~op'.fault) => op'.kcErr = ""
          /\ (kc.kind = "none" /\ file.kind = "json" /\ ~op'.fault) => op'.err = ""
          /\ (kc.kind = "none" /\ file.kind = "absent" /\ ~op'.fault)
                => op'.err = ErrTokenNotFound
          /\ (kc.kind = "none" /\ file.kind = "truncated" /\ ~op'.fault)
                => op'.err \notin {"", ErrTokenNotFound} ]_vars

\* both backends hold a record, of different tokens, and GetToken has
\* answered from the keychain
C10_Witness ==
    /\ op.name = "GetToken"
    /\ op.err = ""
    /\ kc.kind = "item"
    /\ file.kind = "json"
    /\ kc.data # file.data
    /\ op.tok = UnmarshalToken(kc.data)

\* C11: DeleteToken returns ok when no fault is injected, whether or not a
\* record was stored, and after a DeleteToken that returned ok a GetToken
\* (into which no fault is injected) yields ErrTokenNotFound.
C11_DeleteThenNotFound ==
    /\ (op.name = "DeleteToken" /\ ~op.fault) => op.err = ""
    /\ (op.name = "DeleteToken" /\ op.err = "")
          => getToken(kc, file, TRUE, "none").err = ErrTokenNotFound
----------------------------------------------------------------------------
(* Properties of migration and secure erasure                              *)

\* the file at path p
FileAt(p) == IF p = TokenPath THEN file ELSE legacy

\* the step is a MigrateFromFile call that made no Set and no erase attempt
\* and changed nothing
NothingDone ==
    /\ ~op'.set
    /\ op'.erase = <<>>
    /\ <<kc, file, legacy>>' = <<kc, file, legacy>>

CallAt(made, c) == CHOOSE i \in 1..Len(made) : made[i].call = c

Made(made, c) == \E i \in 1..Len(made) : made[i].call = c

\* C19: secureDelete on a path where no file exists returns success and
\* changes nothing; on an existing file of size n that can be opened it
\* makes one write, of exactly n zero bytes, then flushes, and only then
\* unlinks; with no failure the whole file is zeroed before the unlink; and
\* whenever it returns success the file is absent.
C19_EraserPostcondition ==
    [][ op'.name = "secureDelete" =>
          LET before == FileAt(op'.path)
              after  == IF op'.path = TokenPath THEN file' ELSE legacy'
              made  == op'.calls
          IN  /\ before.kind = "absent" =>
                    /\ op'.err = ""
                    /\ <<kc, file, legacy>>' = <<kc, file, legacy>>
                    /\ ~Made(made, "open") /\ ~Made(made, "write")
                    /\ ~Made(made, "remove")
              /\ (before.kind # "absent" /\ op'.faults \cap {"stat", "open"} = {}) =>
                    /\ Cardinality({i \in 1..Len(made) : made[i].call = "write"}) = 1
                    /\ made[CallAt(made, "write")].n = Size(before)
                    /\ Made(made, "sync") /\ Made(made, "remove")
                    /\ CallAt(made, "write") < CallAt(made, "sync")
                    /\ CallAt(made, "sync") < CallAt(made, "remove")
              /\ (before.kind # "absent" /\ op'.faults = {}) =>
                    /\ \A i \in 1..Len(made) : made[i].ok
                    /\ op'.err = ""
              /\ op'.err = "" => after.kind = "absent"
              /\ after.kind \notin {"absent", before.kind} =>
                    (after.kind = "zeroed" /\ after.size = Size(before)) ]_vars

\* a token file of four units has been zeroed in full, flushed and removed
C19_Witness ==
    /\ op.name = "secureDelete"
    /\ op.faults = {}
    /\ Len(op.calls) = 6
    /\ op.calls[3] = Sys("write", 4, TRUE)
    /\ op.calls[6] = Sys("remove", 0, TRUE)
    /\ FileAt(op.path).kind = "absent"

\* C20: when the file exists and opening it for writing, the overwrite or
\* the flush fails, secureDelete still made os.Remove, last, and returns
\* the result of that call; a file left partially zeroed is one whose
\* removal was attempted and failed.
C20_EraserBestEffort ==
    [][ op'.name = "secureDelete" =>
          LET before == FileAt(op'.path)
              after  == IF op'.path = TokenPath THEN file' ELSE legacy'
              made  == op'.calls
          IN  /\ (/\ before.kind # "absent"
                  /\ "stat" \notin op'.faults
                  /\ op'.faults \cap {"open", "write", "short", "sync"} # {}) =>
                    /\ made[Len(made)].call = "remove"
                    /\ (op'.err = "") <=> made[Len(made)].ok
                    /\ (op'.err = "") <=> ("remove" \notin op'.faults)
                    /\ (op'.err = "") <=> (after.kind = "absent")
              /\ (after.kind = "zeroed" /\ after # before) =>
                    /\ Made(made, "remove")
                    /\ op'.err # "" ]_vars

\* the overwrite stopped early and the removal failed: the file is left
\* partially zeroed and secureDelete returned the error of os.Remove
C20_Witness ==
    /\ op.name = "secureDelete"
    /\ op.faults = {"short", "remove"}
    /\ op.err = "remove failed"
    /\ FileAt(op.path).kind = "zeroed"
    /\ FileAt(op.path).zeros < FileAt(op.path).size
----------------------------------------------------------------------------
(* Properties of the callback listener                                     *)

\* C4: a result carrying a code that leaves the result channel while runInit
\* is waiting for it is received by runInit, never by another receiver of
\* the channel.
C4_CallerReceivesCode ==
    \A k \in 1..Len(wGot) : ~(wGot[k].pending /\ wGot[k].res.Code # "")

\* C5: with the listener started, the authorization step resolves through
\* exactly one select case, which
\* is the case of whichever of callback, terminal input and deadline
\* completed first, and it ends in a code, an error or the timeout.
C5_FirstCompletedWins ==
    /\ (Resolved /\ srv # "off") => via = firstDone
    /\ mpc = "returned" => (Resolved /\ ret # "pending")

\* C6: once runInit has received the code of a /callback request, an
\* identical request places no further result on the result channel and the
\* watcher observes no result.
C6_SecondRequestNoEffect ==
    (via = "http" /\ mGot # NoResult /\ mGot.Error = "") =>
        /\ mGot \notin late
        /\ \A k \in 1..Len(wGot) : wGot[k].pending

\* a goroutine is blocked in a send on the full result channel and neither
\* receiver of the channel will receive again
WriterBlockedForever ==
    /\ spc = "send" \/ \E h \in Reqs : hpc[h] = "send"
    /\ Len(resultChan) = ResultChanCap
    /\ mpc \notin {"start", "spawn", "select", "blocked"}
    /\ wpc \notin {"off", "select", "blocked"}

\* C7: no handler (nor the Serve goroutine) stays blocked on its write to the
\* result channel.
C7_WritersNeverBlock == ~WriterBlockedForever

\* the listener could not bind the port
BindFailed == srv = "off" /\ mpc # "start"

\* C14: after a bind failure the authorization attempt is aborted with the
\* error: it is not resolved through terminal input, obtains no code and
\* does not end in success.
C14_BindFailureFatal ==
    BindFailed => (via = "none" /\ code = "" /\ ret # "")

\* C15: when the deadline fires before a callback or a line of input has
\* completed, the attempt is resolved by the deadline only, ends with
\* "authorization timed out", attempts no code exchange and writes no token.
C15_DeadlineFatal ==
    firstDone = "deadline" =>
        /\ via \in {"none", "deadline"}
        /\ mpc \notin {"check", "exchange", "save"}
        /\ mpc = "returned" => ret = "authorization timed out"
        /\ kc = NoItem /\ file = Absent

\* exactly one of Code and Error is non-empty
WellFormed(r) == (r.Code # "") # (r.Error # "")

\* C16: every result a /callback handler produces, and every result on the
\* channel or received from it, has exactly one of Code and Error non-empty;
\* the result for a query with neither code nor error is the error
\* "no authorization code received".
C16_ResultWellFormed ==
    /\ \A q \in Queries :
          /\ WellFormed(handler(q))
          /\ (q.code = "" /\ q.error = "") =>
                handler(q) = CallbackResult("", "no authorization code received")
    /\ \A h \in Reqs : hres[h] # NoResult =>
          /\ hres[h] \in {handler(q) : q \in Queries}
          /\ WellFormed(hres[h])
    /\ \A i \in 1..Len(resultChan) : WellFormed(resultChan[i])
    /\ mGot # NoResult => WellFormed(mGot)
    /\ \A k \in 1..Len(wGot) : WellFormed(wGot[k].res)

\* a request with neither code nor error has been given the synthetic error,
\* which runInit received
C16_Witness ==
    /\ via = "http"
    /\ mGot = handler([code |-> "", error |-> "", error_description |-> "user denied"])
    /\ mGot = CallbackResult("", "no authorization code received")

\* the results of requests that carry an error parameter
ErrorResults == {handler(q) : q \in {x \in Queries : x.error # ""}}

\* C17: the result of a request carrying an error parameter has an empty
\* Code and the error (with its description) as Error, with or without a
\* code parameter; sent while runInit awaits the race, it is received by
\* runInit, which then returns "authorization failed" without an exchange.
C17_ErrorCallback ==
    /\ \A q \in Queries : q.error # "" =>
          /\ handler(q).Code = ""
          /\ handler(q).Error = IF q.error_description # ""
                                THEN q.error \o ": " \o q.error_description
                                ELSE q.error
    /\ \A k \in 1..Len(wGot) : ~(wGot[k].pending /\ wGot[k].res \in ErrorResults)
    /\ (via = "http" /\ mGot \in ErrorResults) =>
          /\ mpc \in {"resolved", "returned"}
          /\ mpc = "returned" => ret = "authorization failed: " \o mGot.Error
          /\ kc = NoItem /\ file = Absent

----------------------------------------------------------------------------
(* Properties of extractAuthCode                                           *)

\* the code parameter of a typed URL: the value of the first code parameter
\* that can be unescaped, none when the URL cannot be parsed
CodeOf(b) ==
    LET codes == SelectSeq(b.params, LAMBDA p : p.key = CodeKey /\ p.enc # "cut")
    IN  IF ~b.host.valid \/ ~b.path.valid \/ codes = <<>>
        THEN <<>>
        ELSE codes[1].value

\* C18: extractAuthCode works on its input with the white space around it
\* removed: for an input that starts with http://localhost or https://localhost
\* it returns the URL-decoded value of the code query parameter, the empty
\* string when there is none (or the URL or the parameter cannot be decoded);
\* for any other input it returns the trimmed input itself.
C18_ExtractAuthCode ==
    extracted.called =>
        extracted.code = IF typed.body.kind = "raw"
                         THEN typed.body.text
                         ELSE CodeOf(typed.body)

\* a pasted redirect URL with white space in front, a state parameter and an
\* escaped code after it, from which the decoded code was returned
C18_Witness ==
    /\ extracted.called
    /\ typed.lead # <<>>
    /\ typed.body.kind = "url"
    /\ typed.body.host.valid /\ typed.body.path.valid
    /\ Len(typed.body.params) = 2
    /\ typed.body.params[1].key # CodeKey
    /\ typed.body.params[2] = [key |-> CodeKey, value |-> <<"4", "/", "0">>, enc |-> "escaped"]
    /\ extracted.code = <<"4", "/", "0">>

----------------------------------------------------------------------------
(* Properties of migration: failures and ordering                          *)

\* the token a fault-free GetToken returns from the state after the step
StoredAfter == getToken(kc', file', TRUE, "none")

\* C21: when MigrateFromFile has Set the token of the file at the path and
\* the erasure of that file then fails, the call returns success and a
\* GetToken that follows returns the migrated token.
C21_EraseFailureNonFatal ==
    [][ (/\ op'.name = "MigrateFromFile"
         /\ op'.set /\ op'.setErr = ""
         /\ op'.eraseErr \notin {"", "skipped"})
          => /\ op'.err = ""
             /\ StoredAfter.err = ""
             /\ StoredAfter.tok = UnmarshalToken(FileAt(op'.path).data) ]_vars

\* C28: whenever MigrateFromFile returns success after finding a token in the
\* file at the path and reading it, a GetToken that follows returns that
\* token.
C28_MigrationKeepsToken ==
    [][ (/\ op'.name = "MigrateFromFile"
         /\ op'.err = ""
         /\ op'.phase = "migrated")
          => /\ StoredAfter.err = ""
             /\ StoredAfter.tok = UnmarshalToken(FileAt(op'.path).data) ]_vars

\* C24: a MigrateFromFile call that finds a file at the path and no token in
\* the secure backend parses the file, then Sets its token, then erases the
\* file: an erase is attempted only after a Set that returned ok, and a run
\* that fails at parsing or at the Set returns an error and leaves the file at
\* the path as it was, without an erase attempt.
C24_MigrationOrder ==
    [][ (/\ op'.name = "MigrateFromFile"
         /\ FileAt(op'.path).kind # "absent"
         /\ op'.phase # "already migrated")
          => LET before == FileAt(op'.path)
                 after  == IF op'.path = TokenPath THEN file' ELSE legacy'
             IN  /\ op'.erase # <<>> => (op'.set /\ op'.setErr = "")
                 /\ op'.set => before.kind = "json"
                 /\ op'.phase \in {"open", "parse", "set"} =>
                       /\ op'.err # ""
                       /\ op'.erase = <<>>
                       /\ after = before
                 /\ op'.phase = "migrated" =>
                       /\ op'.err = ""
                       /\ op'.set /\ op'.setErr = ""
                       /\ op'.erase # <<>> ]_vars

----------------------------------------------------------------------------
(* Properties of the composite store                                       *)

\* C22: GetStorageBackend returns one of the three identifiers; when a token
\* is stored (and no fault is injected into the call) it names the backend
\* GetToken answers from; and directly after a SetToken that fell back to the
\* file it names the file backend.
C22_BackendIdentifier ==
    [][ op'.name = "GetStorageBackend" =>
          /\ op'.backend \in {BackendKeychain, BackendSecretTool, BackendFile}
          /\ (~op'.fault /\ getToken(kc, file, TRUE, "none").err = "") =>
                op'.backend = IF getFromKeychain(kc, TRUE).err = ""
                              THEN BackendKeychain
                              ELSE BackendFile
          /\ (op.name = "SetToken" /\ op.err = "" /\ op.warned /\ ~op'.fault) =>
                op'.backend = BackendFile ]_vars

\* C27: a GetToken without faults that directly follows a SetToken that
\* returned ok returns the token of that Set, whatever the backend calls of
\* the Set and of earlier calls did.
C27_GetReturnsLastSet ==
    [][ (/\ op.name = "SetToken" /\ op.err = ""
         /\ op'.name = "GetToken" /\ ~op'.fault)
          => (op'.err = "" /\ op'.tok = op.arg) ]_vars

----------------------------------------------------------------------------
(* Properties of the init attempt: exchange and save                       *)

\* the position of runInit in the order of its statements
Rank(p) ==
    CASE p \in {"existing", "start"} -> 0
      [] p \in {"manual", "spawn"} -> 1
      [] p = "select" -> 2
      [] p = "blocked" -> 3
      [] p = "resolved" -> 4
      [] p = "check" -> 5
      [] p = "exchange" -> 6
      [] p = "save" -> 7
      [] p = "returned" -> 8

\* C26: within one init attempt the code exchange is invoked at most once and
\* only with a non-empty code, and the store's Set at most once and only after
\* the exchange succeeded; an empty code or a failed exchange ends the attempt
\* with an error and no Set
C26_ExchangeThenSave ==
    [][ /\ Rank(mpc') >= Rank(mpc)
        /\ (mpc' = "exchange" /\ mpc # "exchange")
              => (mpc = "check" /\ code # "" /\ code' = code)
        /\ (mpc' = "save" /\ mpc # "save") => mpc = "exchange"
        /\ (op' # op \/ kc' # kc \/ file' # file)
              => (mpc = "save" /\ mpc' = "returned" /\ op'.name = "SetToken")
        /\ (mpc = "check" /\ code = "" /\ mpc' # mpc)
              => /\ mpc' = "returned"
                 /\ ret' = "no authorization code received"
                 /\ UNCHANGED storeVars
        /\ (mpc = "exchange" /\ mpc' \notin {"exchange", "save"})
              => /\ mpc' = "returned"
                 /\ ret' = "failed to exchange authorization code"
                 /\ UNCHANGED storeVars ]_vars

C26_Witness ==
    /\ mpc = "returned"
    /\ ret = ""
    /\ code # ""
    /\ op.name = "SetToken"
    /\ op.err = ""

----------------------------------------------------------------------------
(* Properties of the init attempt: empty manual input                      *)

\* the input reader was the first to complete, with an empty line or an end
\* of input, the listener being open
EmptyLineFirst ==
    /\ ipc = "done"
    /\ firstDone = "input"
    /\ \/ inputChan = <<(<<>>)>>
       \/ (mpc = "resolved" /\ via = "input" /\ Len(mIn) = 0)
       \/ (mpc \in {"check", "exchange", "save", "returned"} /\ via = "input"
             /\ code = "")

\* C29: an empty line or an end of input on the terminal, completing before
\* any callback and before the deadline, resolves the attempt as manual input
\* with an empty code: the attempt ends with "no authorization code received",
\* and neither a callback arriving afterwards nor the deadline resolves it
C29_EmptyInputEndsFlow ==
    EmptyLineFirst
        => /\ via \in {"none", "input"}
           /\ mpc \notin {"exchange", "save"}
           /\ mpc = "returned" => ret = "no authorization code received"

----------------------------------------------------------------------------
(* Properties of the init attempt: the store after a failure               *)

\* the attempt has returned an error of the authorization or of the exchange
AttemptFailed ==
    /\ mpc = "returned"
    /\ \/ ret \in {"authorization timed out", "no authorization code received",
                   "failed to exchange authorization code"}
       \/ (via = "http" /\ mGot.Error # ""
             /\ ret = "authorization failed: " \o mGot.Error)

\* C30: an init attempt that ends in a failure of the authorization or of the
\* exchange leaves the store as it was on entry, also when init started from a
\* stored token and re-authenticates
C30_FailureLeavesStore ==
    AttemptFailed
        => /\ kc = Item(MarshalToken(StoredToken))
           /\ file = Absent

----------------------------------------------------------------------------
(* Properties of the callback listener: lifecycle                          *)

\* C25: the listener goes from Listening through Resolved or TimedOut to
\* Closed: the watcher closes it only after the attempt was resolved (by a
\* callback or by manual input) or the deadline fired
C25_ListenerLifecycle ==
    (srv = "closed" /\ wpc = "done") => (Resolved \/ deadline)

----------------------------------------------------------------------------
(* Properties of the file fallback: modes                                  *)

\* C23: after a successful Set through the file fallback the token file has
\* mode 0600 and its directory mode 0700, whatever modes a file or directory
\* that was there before had
C23_FallbackModes ==
    (op.name = "SetToken" /\ op.err = "" /\ op.warned)
        => /\ fileMode = Node(FilePerm)
           /\ dirMode = Node(DirPerm)
============================================================================
